---- MODULE Spec2Model ----
(***************************************************************************)
(* A model of celpy/c7nlib.py: the C7N ambient context (module global     *)
(* C7N, class C7NContext, C7N_Interpreted_Runner.evaluate), the capability *)
(* adapters that read it, and the pure domain transforms.                  *)
(***************************************************************************)
EXTENDS Integers, Sequences, FiniteSets, TLC

VARIABLES
    C7N,         \* the module global: None or the C7NContext object installed
    pc,          \* per worker: "idle", "with", "eval", "returned"
    outer,       \* per worker: evaluate() was called inside a user with-block
    withFilter,  \* per worker: the filter of the user's with C7NContext(filter=...)
    evalFilter,  \* per worker: the filter argument of the running evaluate()
    exc,         \* per worker: the exception leaving e.evaluate(), or "none"
    result,      \* per worker: what evaluate() delivered to its caller
    disturbed,   \* per worker: another worker wrote the slot since this evaluation entered
    last,        \* the most recent capability adapter call
    args,        \* pure transforms: the function applied and its arguments
    ret          \* pure transforms: what the function returned or raised

vars == <<C7N, pc, outer, withFilter, evalFilter, exc, result,
          disturbed, last, args, ret>>

ctxVars == <<C7N, pc, outer, withFilter, evalFilter, exc, result,
             disturbed, last>>

pureVars == <<args, ret>>

-----------------------------------------------------------------------------
(* The ambient context *)

Workers == {"w1", "w2"}

\* Filter objects handed to C7NContext; "None" is Python's None
Filters == {"F1", "F2"}

None == "None"

\* C7N = cast("C7NContext", None): the empty slot
NoContext == [set |-> FALSE, owner |-> None, filter |-> None]

\* a C7NContext.__init__ that does not keep its argument
C7NContext_DropsFilter(w, filter) == [set |-> TRUE, owner |-> w, filter |-> None]

\* C7NContext.__init__: the object remembers the filter it was given
C7NContext(w, filter) == [set |-> TRUE, owner |-> w, filter |-> filter]

\* an __enter__ without its `global C7N`: the assignment binds a local
Enter_Local(self) == C7N

\* C7NContext.__enter__: C7N = self
Enter(self) == self

\* an __exit__ without its `global C7N`: the slot keeps its context
Exit_Local(slot) == slot

\* an __exit__ that puts back the context of the enclosing with-block
Exit_Restore(slot) ==
    IF \E w \in Workers : pc[w] = "eval" /\ outer[w]
    THEN LET w == CHOOSE u \in Workers : pc[u] = "eval" /\ outer[u]
         IN C7NContext(w, withFilter[w])
    ELSE NoContext

\* C7NContext.__exit__: C7N = None whatever the exception
Exit(slot) == NoContext

\* an __exit__ that returns True suppresses the exception of the body
ExitReturn_Suppress == TRUE

\* the value C7NContext.__exit__ returns: None, which is falsy, so the with
\* statement re-raises the exception of its body
ExitReturn == FALSE

NoCall ==
    [called |-> FALSE, worker |-> None, inEval |-> FALSE, documented |-> FALSE,
     slotEmpty |-> FALSE, read |-> None, given |-> None, theFilter |-> None,
     invoked |-> None, outcome |-> "none", slotAfterEmpty |-> FALSE,
     disturbed |-> FALSE]

NoResult == [kind |-> "none", err |-> "none"]

\* an adapter that answers null for an empty slot (a soft miss)
AdapterOutcome_SoftMiss(slot, ok) ==
    IF ~slot.set \/ slot.filter = None THEN [outcome |-> "value", invoked |-> None]
    ELSE [outcome |-> IF ok THEN "value" ELSE "FilterError", invoked |-> slot.filter]

\* What an adapter such as get_related_ids does with the slot it finds:
\* C7N.filter.get_related_ids(resource). An empty slot (None.filter) and a
\* context holding no filter (None.get_related_ids) raise AttributeError before
\* any capability runs; otherwise the capability of the filter in the slot runs
\* and returns (ok) or raises.
AdapterOutcome(slot, ok) ==
    IF ~slot.set THEN [outcome |-> "AttributeError", invoked |-> None]
    ELSE IF slot.filter = None THEN [outcome |-> "AttributeError", invoked |-> None]
    ELSE [outcome |-> IF ok THEN "value" ELSE "FilterError", invoked |-> slot.filter]

\* the filter an adapter reads through the slot
AdapterRead(slot) == IF slot.set THEN slot.filter ELSE None

\* the with statement of evaluate(): an exception of the body is re-raised
\* unless __exit__ returned a true value; when it is suppressed, `value` was
\* never bound and `return value` raises UnboundLocalError
WithOutcome(raised, suppress) ==
    IF raised = "none" THEN [kind |-> "value", err |-> "none"]
    ELSE IF suppress THEN [kind |-> "error", err |-> "UnboundLocalError"]
    ELSE [kind |-> "error", err |-> raised]

\* every other worker that is inside an evaluation sees its slot overwritten
Disturb(w) ==
    [u \in Workers |-> IF u # w /\ pc[u] = "eval" THEN TRUE ELSE disturbed[u]]

\* user code: with C7NContext(filter=the_filter):
WithEnter(w, f) ==
    /\ pc[w] = "idle"
    /\ C7N' = Enter(C7NContext(w, f))
    /\ pc' = [pc EXCEPT ![w] = "with"]
    /\ withFilter' = [withFilter EXCEPT ![w] = f]
    /\ disturbed' = Disturb(w)
    /\ UNCHANGED <<outer, evalFilter, exc, result, last, args, ret>>

\* user code: the end of the with-block
WithExit(w) ==
    /\ pc[w] = "with"
    /\ C7N' = Exit(C7N)
    /\ pc' = [pc EXCEPT ![w] = "idle"]
    /\ withFilter' = [withFilter EXCEPT ![w] = None]
    /\ disturbed' = Disturb(w)
    /\ UNCHANGED <<outer, evalFilter, exc, result, last, args, ret>>

\* C7N_Interpreted_Runner.evaluate(context, filter=f) up to e.evaluate():
\* the Evaluator is built, then the with statement installs C7NContext(filter)
EvaluateEnter(w, f) ==
    /\ pc[w] \in {"idle", "with"}
    /\ C7N' = Enter(C7NContext(w, f))
    /\ pc' = [pc EXCEPT ![w] = "eval"]
    /\ outer' = [outer EXCEPT ![w] = (pc[w] = "with")]
    /\ evalFilter' = [evalFilter EXCEPT ![w] = f]
    /\ exc' = [exc EXCEPT ![w] = "none"]
    /\ result' = [result EXCEPT ![w] = NoResult]
    /\ disturbed' = [Disturb(w) EXCEPT ![w] = FALSE]
    /\ UNCHANGED <<withFilter, last, args, ret>>

\* the record of one adapter call made by worker w on the slot it finds
CallRecord(w, ok, after) ==
    LET o == AdapterOutcome(C7N, ok) IN
    [called |-> TRUE, worker |-> w, inEval |-> (pc[w] = "eval"),
     documented |-> (pc[w] = "eval" /\ outer[w] /\ evalFilter[w] = None),
     slotEmpty |-> ~C7N.set, read |-> AdapterRead(C7N),
     given |-> IF pc[w] = "eval" THEN evalFilter[w] ELSE None,
     theFilter |-> withFilter[w],
     invoked |-> o.invoked, outcome |-> o.outcome,
     slotAfterEmpty |-> ~after.set,
     disturbed |-> (pc[w] = "eval" /\ disturbed[w])]

\* an adapter that resets the slot after its call
AdapterCall_ClearsSlot(w) ==
    /\ pc[w] = "eval" /\ exc[w] = "none"
    /\ C7N' = NoContext
    /\ UNCHANGED <<pc, outer, withFilter, evalFilter, result, disturbed,
                   args, ret>>
    /\ \E ok \in BOOLEAN :
         /\ last' = CallRecord(w, ok, C7N')
         /\ exc' = [exc EXCEPT ![w] =
                      IF last'.outcome = "value" THEN "none" ELSE last'.outcome]

\* the evaluator calls a capability adapter (get_related_ids, ...); an
\* exception leaves e.evaluate()
AdapterCall(w) ==
    /\ pc[w] = "eval" /\ exc[w] = "none"
    /\ UNCHANGED <<C7N, pc, outer, withFilter, evalFilter, result, disturbed,
                   args, ret>>
    /\ \E ok \in BOOLEAN :
         /\ last' = CallRecord(w, ok, C7N')
         /\ exc' = [exc EXCEPT ![w] =
                      IF last'.outcome = "value" THEN "none" ELSE last'.outcome]

\* user code calls a capability adapter directly, outside any evaluation
DirectAdapterCall(w) ==
    /\ pc[w] \in {"idle", "with"}
    /\ UNCHANGED <<C7N, pc, outer, withFilter, evalFilter, exc, result,
                   disturbed, args, ret>>
    /\ \E ok \in BOOLEAN : last' = CallRecord(w, ok, C7N')

\* the evaluator calls text_from(url): the transport answers or raises
TextFrom(w) ==
    /\ pc[w] = "eval" /\ exc[w] = "none"
    /\ \E ok \in BOOLEAN :
         exc' = [exc EXCEPT ![w] = IF ok THEN "none" ELSE "TransportError"]
    /\ UNCHANGED <<C7N, pc, outer, withFilter, evalFilter, result, disturbed,
                   last, args, ret>>

\* e.evaluate() ends (a value, the exception of a call, or the evaluator's
\* own CELEvalError), __exit__ clears the slot, and evaluate() returns the
\* value or lets the exception through
EvaluateExit(w) ==
    /\ pc[w] = "eval"
    /\ \E raised \in (IF exc[w] = "none" THEN {"none", "CELEvalError"} ELSE {exc[w]}) :
         /\ exc' = [exc EXCEPT ![w] = raised]
         /\ result' = [result EXCEPT ![w] = WithOutcome(raised, ExitReturn)]
    /\ C7N' = Exit(C7N)
    /\ pc' = [pc EXCEPT ![w] = "returned"]
    /\ disturbed' = Disturb(w)
    /\ UNCHANGED <<outer, withFilter, evalFilter, last, args, ret>>

\* the caller of evaluate() goes on: back in its with-block, or outside
Resume(w) ==
    /\ pc[w] = "returned"
    /\ pc' = [pc EXCEPT ![w] = IF outer[w] THEN "with" ELSE "idle"]
    /\ outer' = [outer EXCEPT ![w] = FALSE]
    /\ evalFilter' = [evalFilter EXCEPT ![w] = None]
    /\ exc' = [exc EXCEPT ![w] = "none"]
    /\ result' = [result EXCEPT ![w] = NoResult]
    /\ UNCHANGED <<C7N, withFilter, disturbed, last, args, ret>>

\* single-threaded use: a worker runs only while every other one is idle
Serialized(w) == \A u \in Workers \ {w} : pc[u] = "idle"

NoPureCall == [fn |-> "none"]

InitContext ==
    /\ C7N = NoContext
    /\ pc = [w \in Workers |-> "idle"]
    /\ outer = [w \in Workers |-> FALSE]
    /\ withFilter = [w \in Workers |-> None]
    /\ evalFilter = [w \in Workers |-> None]
    /\ exc = [w \in Workers |-> "none"]
    /\ result = [w \in Workers |-> NoResult]
    /\ disturbed = [w \in Workers |-> FALSE]
    /\ last = NoCall

Init ==
    /\ InitContext
    /\ args = NoPureCall
    /\ ret = NoPureCall

Next ==
    \/ \E w \in Workers, f \in Filters : Serialized(w) /\ WithEnter(w, f)
    \/ \E w \in Workers : Serialized(w) /\ WithExit(w)
    \/ \E w \in Workers, f \in Filters \cup {None} :
          Serialized(w) /\ EvaluateEnter(w, f)
    \/ \E w \in Workers : Serialized(w) /\ AdapterCall(w)
    \/ \E w \in Workers : Serialized(w) /\ DirectAdapterCall(w)
    \/ \E w \in Workers : Serialized(w) /\ TextFrom(w)
    \/ \E w \in Workers : Serialized(w) /\ EvaluateExit(w)
    \/ \E w \in Workers : Serialized(w) /\ Resume(w)

Spec == Init /\ [][Next]_vars

\* two workers of one process, each running evaluate(), interleaved at every
\* step
NextConc ==
    \/ \E w \in Workers, f \in Filters : EvaluateEnter(w, f)
    \/ \E w \in Workers : AdapterCall(w)
    \/ \E w \in Workers : EvaluateExit(w)
    \/ \E w \in Workers : Resume(w)

SpecConc == Init /\ [][NextConc]_vars

-----------------------------------------------------------------------------
(* Bounds of the pure transforms *)

\* longest tag list given to key()
MaxTags == 3

\* longest list given to difference() and intersect()
MaxList == 3

-----------------------------------------------------------------------------
(* Calls of a pure transform: args holds the function and its arguments,    *)
(* ret what came back                                                        *)

Pending == [status |-> "pending"]

Returned(v) == [status |-> "returned", value |-> v]

Raised(e) == [status |-> "raised", error |-> e]

\* all sequences over S of length at most n
SeqsUpTo(S, n) == UNION {[1..k -> S] : k \in 0..n}

\* the context machine stands still while a pure transform is applied
ContextIdle == InitContext

-----------------------------------------------------------------------------
(* key(source, target) *)

TagKeys == {"Name", "Env"}

\* a Value may itself be null
TagValues == {"a", "b", None}

TagRecords == [Key : TagKeys, Value : TagValues]

\* MapType.get(name): None for an absent name
Get(item, name) == IF name \in DOMAIN item THEN item[name] ELSE None

\* the generator expression of key(): the items whose "Key" is the target,
\* in list order
Matches(source, target) ==
    SelectSeq(source, LAMBDA item : Get(item, "Key") = target)

\* a lookup through a dict built from the list: the last record wins
key_LastMatch(source, target) ==
    LET m == Matches(source, target) IN
    IF m = <<>> THEN Returned(None) ELSE Returned(Get(m[Len(m)], "Value"))

\* key(): next(matches).get("Value"), and None on StopIteration
key(source, target) ==
    LET m == Matches(source, target) IN
    IF m = <<>> THEN Returned(None) ELSE Returned(Get(Head(m), "Value"))

InitKey ==
    /\ ContextIdle
    /\ args \in [fn : {"key"}, source : SeqsUpTo(TagRecords, MaxTags),
                 target : TagKeys]
    /\ ret = Pending

KeyCall ==
    /\ args.fn = "key" /\ ret.status = "pending"
    /\ ret' = key(args.source, args.target)
    /\ UNCHANGED <<args, ctxVars>>

NextKey == KeyCall

SpecKey == InitKey /\ [][NextKey]_vars

-----------------------------------------------------------------------------
(* difference(left, right), intersect(left, right) *)

Elements == {"x", "y", "z"}

Lists == SeqsUpTo(Elements, MaxList)

\* set(list)
ToSet(list) == {list[i] : i \in DOMAIN list}

\* a comparison of the lists themselves, as the docstring's "the lists are
\* the same" suggests
difference_ListCompare(left, right) == Returned(left # right)

\* difference(): bool(set(left) - set(right))
difference(left, right) == Returned((ToSet(left) \ ToSet(right)) # {})

\* intersect(): bool(set(left) & set(right))
intersect(left, right) == Returned((ToSet(left) \cap ToSet(right)) # {})

InitSets ==
    /\ ContextIdle
    /\ args \in [fn : {"difference", "intersect"}, left : Lists, right : Lists]
    /\ ret = Pending

DifferenceCall ==
    /\ args.fn = "difference" /\ ret.status = "pending"
    /\ ret' = difference(args.left, args.right)
    /\ UNCHANGED <<args, ctxVars>>

IntersectCall ==
    /\ args.fn = "intersect" /\ ret.status = "pending"
    /\ ret' = intersect(args.left, args.right)
    /\ UNCHANGED <<args, ctxVars>>

NextSets == DifferenceCall \/ IntersectCall

SpecSets == InitSets /\ [][NextSets]_vars

-----------------------------------------------------------------------------
(* Text *)

Char(s, i) == SubSeq(s, i, i)

\* c in s
HasChar(s, c) == \E i \in 1..Len(s) : Char(s, i) = c

Digits == {"0", "1", "2", "3", "4", "5", "6", "7", "8", "9"}

DigitValue(c) ==
    CASE c = "0" -> 0 [] c = "1" -> 1 [] c = "2" -> 2 [] c = "3" -> 3
      [] c = "4" -> 4 [] c = "5" -> 5 [] c = "6" -> 6 [] c = "7" -> 7
      [] c = "8" -> 8 [] c = "9" -> 9

\* str.isdigit() of an ASCII string
IsDigits(s) == Len(s) > 0 /\ \A i \in 1..Len(s) : Char(s, i) \in Digits

RECURSIVE ToInt(_)
\* int(s) of a string of decimal digits
ToInt(s) ==
    IF Len(s) = 0 THEN 0
    ELSE ToInt(SubSeq(s, 1, Len(s) - 1)) * 10 + DigitValue(Char(s, Len(s)))

RECURSIVE Split(_, _)
\* s.split(sep) for a one-character separator
Split(s, sep) ==
    IF ~HasChar(s, sep) THEN <<s>>
    ELSE LET i == CHOOSE k \in 1..Len(s) :
                     Char(s, k) = sep /\ \A j \in 1..(k - 1) : Char(s, j) # sep
         IN <<SubSeq(s, 1, i - 1)>> \o Split(SubSeq(s, i + 1, Len(s)), sep)

-----------------------------------------------------------------------------
(* parse_cidr(value) and IPv4Network.__contains__ *)

\* 2^n for the host bits of one octet
Pow2(n) == CASE n = 0 -> 1 [] n = 1 -> 2 [] n = 2 -> 4 [] n = 3 -> 8 [] n = 4 -> 16
             [] n = 5 -> 32 [] n = 6 -> 64 [] n = 7 -> 128 [] n = 8 -> 256

\* how many of the bits of octet i (1..4) a prefix of length p covers
MaskBits(p, i) ==
    LET d == p - 8 * (i - 1) IN IF d < 0 THEN 0 ELSE IF d > 8 THEN 8 ELSE d

\* octet o with the bits below the mask cleared
NetOctet(o, bits) == o - (o % Pow2(8 - bits))

\* the netmask of prefix length p, as four octets
MaskOctets(p) == [i \in 1..4 |-> 256 - Pow2(8 - MaskBits(p, i))]

\* addresses are compared as 32-bit integers: octet by octet, highest first
AddrLeq(x, y) ==
    \/ x = y
    \/ \E i \in 1..4 : x[i] < y[i] /\ \A j \in 1..(i - 1) : x[j] = y[j]

Ok(v) == [ok |-> TRUE, value |-> v]

Err(e) == [ok |-> FALSE, error |-> e]

\* the values parse_cidr produces
NoneCidr == [kind |-> "None"]

Address(octets) == [kind |-> "address", octets |-> octets]

Network(octets, prefixlen) ==
    [kind |-> "network", octets |-> octets, prefixlen |-> prefixlen]

\* ipaddress: one decimal octet, at most three digits, no leading zero, <= 255
OctetOk(t) ==
    /\ IsDigits(t) /\ Len(t) <= 3
    /\ ~(Len(t) > 1 /\ Char(t, 1) = "0")
    /\ ToInt(t) <= 255

\* ipaddress.IPv4Address(text): four octets separated by "."
IPv4Address(text) ==
    LET parts == Split(text, ".") IN
    IF Len(parts) # 4 \/ \E i \in 1..4 : ~OctetOk(parts[i])
    THEN Err("AddressValueError")
    ELSE Ok(Address([i \in 1..4 |-> ToInt(parts[i])]))

\* ipaddress.ip_address(text): IPv4Address, then IPv6Address, else ValueError;
\* a text without ":" is never an IPv6 address
ip_address(text) ==
    LET v4 == IPv4Address(text) IN
    IF v4.ok THEN v4 ELSE Err("ValueError")

\* ipaddress: the prefix length of the text after "/": decimal digits up to
\* 32, or a dotted netmask, or a dotted hostmask
MakeNetmask(mask) ==
    IF IsDigits(mask)
    THEN IF ToInt(mask) <= 32 THEN Ok(ToInt(mask)) ELSE Err("NetmaskValueError")
    ELSE LET m == IPv4Address(mask) IN
         IF ~m.ok THEN Err("NetmaskValueError")
         ELSE IF \E p \in 0..32 : MaskOctets(p) = m.value.octets
         THEN Ok(CHOOSE p \in 0..32 : MaskOctets(p) = m.value.octets)
         ELSE IF \E p \in 0..32 :
                    [i \in 1..4 |-> 255 - MaskOctets(p)[i]] = m.value.octets
         THEN Ok(CHOOSE p \in 0..32 :
                    [i \in 1..4 |-> 255 - MaskOctets(p)[i]] = m.value.octets)
         ELSE Err("NetmaskValueError")

\* IPv4Network(text), strict: address "/" mask, at most one "/", no host bits
IPv4Network(text) ==
    LET parts == Split(text, "/") IN
    IF Len(parts) > 2 THEN Err("AddressValueError")
    ELSE LET a == IPv4Address(parts[1]) IN
         IF ~a.ok THEN a
         ELSE LET m == IF Len(parts) = 2 THEN MakeNetmask(parts[2]) ELSE Ok(32) IN
              IF ~m.ok THEN m
              ELSE IF \E i \in 1..4 :
                         NetOctet(a.value.octets[i], MaskBits(m.value, i))
                             # a.value.octets[i]
              THEN Err("ValueError")
              ELSE Ok(Network(a.value.octets, m.value))

\* a handler that names only AddressValueError
Caught_AddressOnly(e) == e = "AddressValueError"

\* except (ipaddress.AddressValueError, ValueError): AddressValueError and
\* NetmaskValueError are ValueErrors
Caught(e) == e \in {"AddressValueError", "NetmaskValueError", "ValueError"}

\* parse_cidr(value)
parse_cidr(value) ==
    LET v == IF HasChar(value, "/") THEN IPv4Network(value) ELSE ip_address(value) IN
    IF v.ok THEN Returned(v.value)
    ELSE IF Caught(v.error) THEN Returned(NoneCidr)
    ELSE Raised(v.error)

\* first and last address of a network
network_address(n) == n.octets

broadcast_address(n) ==
    [i \in 1..4 |-> n.octets[i] + Pow2(8 - MaskBits(n.prefixlen, i)) - 1]

\* supernet_of(other): other's range lies within self's
supernet_of(self, other) ==
    /\ AddrLeq(network_address(self), network_address(other))
    /\ AddrLeq(broadcast_address(other), broadcast_address(self))

\* ipaddress's own __contains__, without the override: no network is in a
\* network
Contains_NoOverride(self, other) ==
    IF other.kind = "None" THEN FALSE
    ELSE IF other.kind = "network" THEN FALSE
    ELSE /\ AddrLeq(network_address(self), other.octets)
         /\ AddrLeq(other.octets, broadcast_address(self))

\* IPv4Network.__contains__(self, other): `other in self`
Contains(self, other) ==
    IF other.kind = "None" THEN FALSE
    ELSE IF other.kind = "network" THEN supernet_of(self, other)
    ELSE /\ AddrLeq(network_address(self), other.octets)
         /\ AddrLeq(other.octets, broadcast_address(self))

AddressTexts ==
    {"10.0.0.0", "10.1.2.3", "10.1.0.0", "10.255.255.255", "11.0.0.0",
     "0.0.0.0", "192.168.1.128", "10.256.0.0", "10.0.0", "10.0.0.x"}

MaskTexts ==
    {"", "/8", "/16", "/25", "/32", "/0", "/33", "/", "/8/8", "/x",
     "/255.0.0.0", "/0.0.255.255", "/255.0.255.0"}

CidrTexts ==
    {a \o m : a \in AddressTexts, m \in MaskTexts} \cup {"not-an-ip", ""}

InitCidr ==
    /\ ContextIdle
    /\ args \in [fn : {"parse_cidr"}, a : CidrTexts, b : CidrTexts]
    /\ ret = Pending

\* parse_cidr(a) and parse_cidr(b)
ParseCidrCall ==
    /\ args.fn = "parse_cidr" /\ ret.status = "pending"
    /\ ret' = [status |-> "parsed", a |-> parse_cidr(args.a),
               b |-> parse_cidr(args.b)]
    /\ UNCHANGED <<args, ctxVars>>

\* parse_cidr(b) in parse_cidr(a), for a network a
ContainsCall ==
    /\ args.fn = "parse_cidr" /\ ret.status = "parsed"
    /\ ret.a.status = "returned" /\ ret.b.status = "returned"
    /\ ret.a.value.kind = "network"
    /\ ret' = [status |-> "tested", a |-> ret.a, b |-> ret.b,
               in |-> Contains(ret.a.value, ret.b.value)]
    /\ UNCHANGED <<args, ctxVars>>

NextCidr == ParseCidrCall \/ ContainsCall

SpecCidr == InitCidr /\ [][NextCidr]_vars

-----------------------------------------------------------------------------
(* size_parse_cidr(value) *)

\* celtypes.IntType(n)
IntType(n) == [type |-> "int", value |-> n]

\* the None a function returns, among typed values
Null == [type |-> "null"]

\* bool(cidr): None is false; IPv4Network and IPv4Address define neither
\* __bool__ nor __len__, so every instance is true
Truthy(cidr) == cidr.kind # "None"

\* cidr.prefixlen: an attribute of a network; ipaddress.IPv4Address has none
GetPrefixlen(cidr) ==
    IF cidr.kind = "network" THEN Ok(cidr.prefixlen) ELSE Err("AttributeError")

\* size_parse_cidr(value)
size_parse_cidr(value) ==
    LET cidr == parse_cidr(value) IN
    IF cidr.status = "raised" THEN cidr
    ELSE IF Truthy(cidr.value)
    THEN LET p == GetPrefixlen(cidr.value) IN
         IF p.ok THEN Returned(IntType(p.value)) ELSE Raised(p.error)
    ELSE Returned(Null)

InitSize ==
    /\ ContextIdle
    /\ args \in [fn : {"size_parse_cidr"}, value : CidrTexts]
    /\ ret = Pending

SizeParseCidrCall ==
    /\ args.fn = "size_parse_cidr" /\ ret.status = "pending"
    /\ ret' = size_parse_cidr(args.value)
    /\ UNCHANGED <<args, ctxVars>>

NextSize == SizeParseCidrCall

SpecSize == InitSize /\ [][NextSize]_vars

-----------------------------------------------------------------------------
(* version(value): ComparableVersion over distutils' LooseVersion *)

Lowers ==
    {"a", "b", "c", "d", "e", "f", "g", "h", "i", "j", "k", "l", "m", "n",
     "o", "p", "q", "r", "s", "t", "u", "v", "w", "x", "y", "z"}

\* the characters of the version texts, in code point order
Ascii == "+-.0123456789ABCDEFGHIJKLMNOPQRSTUVWXYZ_abcdefghijklmnopqrstuvwxyz"

Ord(c) == CHOOSE i \in 1..Len(Ascii) : Char(Ascii, i) = c

\* str < str: by code points, a proper prefix first
StrLt(a, b) ==
    \/ Len(a) < Len(b) /\ SubSeq(b, 1, Len(a)) = a
    \/ \E i \in 1..Len(a) :
          /\ i <= Len(b)
          /\ SubSeq(a, 1, i - 1) = SubSeq(b, 1, i - 1)
          /\ Ord(Char(a, i)) < Ord(Char(b, i))

\* the alternatives of component_re, (\d+ | [a-z]+ | \.), and the rest
CharClass(c) ==
    IF c \in Digits THEN "digits"
    ELSE IF c \in Lowers THEN "letters"
    ELSE IF c = "." THEN "dot"
    ELSE "between"

\* the end of the longest run of characters of the class of s[1]
RunEnd(s) ==
    CHOOSE j \in 1..Len(s) :
        /\ \A k \in 1..j : CharClass(Char(s, k)) = CharClass(Char(s, 1))
        /\ j < Len(s) => CharClass(Char(s, j + 1)) # CharClass(Char(s, 1))

\* one component of a version: int(obj) for a run of digits, else the text
Component(tok) ==
    IF IsDigits(tok) THEN [t |-> "int", n |-> ToInt(tok), s |-> ""]
    ELSE [t |-> "str", n |-> 0, s |-> tok]

RECURSIVE LooseVersion_parse(_)
\* LooseVersion.parse(vstring): component_re.split(vstring) without the
\* empty strings and the dots, digit runs turned into ints
LooseVersion_parse(vstring) ==
    IF vstring = "" THEN <<>>
    ELSE LET dot == CharClass(Char(vstring, 1)) = "dot"
             j == IF dot THEN 1 ELSE RunEnd(vstring)
             rest == LooseVersion_parse(SubSeq(vstring, j + 1, Len(vstring)))
         IN IF dot THEN rest ELSE <<Component(SubSeq(vstring, 1, j))>> \o rest

\* list == list
ListEq(x, y) == x = y

\* the first index at which two lists differ (0: one is a prefix of the other)
FirstDiff(x, y) ==
    IF \E i \in 1..Len(x) : i <= Len(y) /\ x[i] # y[i]
    THEN CHOOSE i \in 1..Len(x) :
            /\ i <= Len(y) /\ x[i] # y[i]
            /\ \A j \in 1..(i - 1) : x[j] = y[j]
    ELSE 0

\* a comparison that first pads the shorter list with zero segments
ListLt_ZeroPadded(x, y) ==
    LET n == IF Len(x) < Len(y) THEN Len(y) ELSE Len(x)
        pad(l) == [i \in 1..n |-> IF i <= Len(l) THEN l[i] ELSE Component("0")]
        i == FirstDiff(pad(x), pad(y))
    IN IF i = 0 THEN Ok(FALSE)
       ELSE IF pad(x)[i].t # pad(y)[i].t THEN Err("TypeError")
       ELSE IF pad(x)[i].t = "int" THEN Ok(pad(x)[i].n < pad(y)[i].n)
       ELSE Ok(StrLt(pad(x)[i].s, pad(y)[i].s))

\* list < list: the first differing elements decide, int < str raises
\* TypeError; without a difference the shorter list is the smaller
ListLt(x, y) ==
    LET i == FirstDiff(x, y) IN
    IF i = 0 THEN Ok(Len(x) < Len(y))
    ELSE IF x[i].t # y[i].t THEN Err("TypeError")
    ELSE IF x[i].t = "int" THEN Ok(x[i].n < y[i].n)
    ELSE Ok(StrLt(x[i].s, y[i].s))

\* the values compared with a version: a version, a str, anything else
VersionValue(text) == [kind |-> "version", text |-> text]

StrValue(text) == [kind |-> "str", text |-> text]

OtherValue == [kind |-> "other", text |-> ""]

\* the singleton a comparison method returns for an operand it does not know
NotImplemented == [ok |-> TRUE, singleton |-> "NotImplemented"]

\* LooseVersion.__init__(vstring): `if vstring: self.parse(vstring)`, so the
\* object built from an empty string has no attribute `version`
HasVersion(v) == v.text # ""

\* LooseVersion._cmp(self, other): a str is turned into a LooseVersion, any
\* other non-version is NotImplemented; then ==, <, > on self.version and
\* other.version
LooseVersion_cmp(self, other) ==
    IF other.kind = "other" THEN NotImplemented
    ELSE IF ~HasVersion(self) \/ ~HasVersion(other) THEN Err("AttributeError")
    ELSE LET x == LooseVersion_parse(self.text)
             y == LooseVersion_parse(other.text)
         IN IF ListEq(x, y) THEN Ok("0")
            ELSE LET lt == ListLt(x, y) IN
                 IF ~lt.ok THEN lt
                 ELSE IF lt.value THEN Ok("-1")
                 ELSE LET gt == ListLt(y, x) IN
                      IF ~gt.ok THEN gt
                      ELSE IF gt.value THEN Ok("1") ELSE Ok("None")

\* LooseVersion.__eq__: c == 0, or NotImplemented
LooseVersion_eq(self, other) ==
    LET c == LooseVersion_cmp(self, other) IN
    IF ~c.ok \/ c = NotImplemented THEN c ELSE Ok(c.value = "0")

\* LooseVersion.__lt__: c < 0, or NotImplemented
LooseVersion_lt(self, other) ==
    LET c == LooseVersion_cmp(self, other) IN
    IF ~c.ok \/ c = NotImplemented THEN c ELSE Ok(c.value = "-1")

\* an __eq__ without the try: what LooseVersion does
ComparableVersion_eq_NoHandler(self, other) == LooseVersion_eq(self, other)

\* ComparableVersion.__eq__: super().__eq__(other), False on TypeError
ComparableVersion_eq(self, other) ==
    LET r == LooseVersion_eq(self, other) IN
    IF ~r.ok /\ r.error = "TypeError" THEN Ok(FALSE) ELSE r

\* the expression v == x: NotImplemented from v.__eq__ (and then from the
\* reflected x.__eq__) falls back to identity, which is false
EqOperator(v, x) ==
    LET r == ComparableVersion_eq(v, x) IN
    IF ~r.ok THEN Raised(r.error)
    ELSE IF r = NotImplemented THEN Returned(FALSE)
    ELSE Returned(r.value)

\* the expression v < x: __lt__ is LooseVersion's; NotImplemented from both
\* sides is a TypeError
LtOperator(v, x) ==
    LET r == LooseVersion_lt(v, x) IN
    IF ~r.ok THEN Raised(r.error)
    ELSE IF r = NotImplemented THEN Raised("TypeError")
    ELSE Returned(r.value)

VersionTexts ==
    {"1.2", "1.2.0", "1.2.0.0", "1.2.1", "1.10", "1.9", "1", "1.0", "",
     "1.2a", "1.2.a", "1.a", "a.2", "2.0rc1", "2.0-rc1", "1..2", "present"}

VersionOthers ==
    {VersionValue(t) : t \in VersionTexts} \cup {StrValue(t) : t \in VersionTexts}
        \cup {OtherValue}

InitVersion ==
    /\ ContextIdle
    /\ args \in [fn : {"version"}, left : VersionTexts, right : VersionOthers]
    /\ ret = Pending

\* version(left) == right
VersionEqCall ==
    /\ args.fn = "version" /\ ret.status = "pending"
    /\ ret' = [status |-> "done", op |-> "eq",
               r |-> EqOperator(VersionValue(args.left), args.right)]
    /\ UNCHANGED <<args, ctxVars>>

\* version(left) < right
VersionLtCall ==
    /\ args.fn = "version" /\ ret.status = "pending"
    /\ ret' = [status |-> "done", op |-> "lt",
               r |-> LtOperator(VersionValue(args.left), args.right)]
    /\ UNCHANGED <<args, ctxVars>>

NextVersion == VersionEqCall \/ VersionLtCall

SpecVersion == InitVersion /\ [][NextVersion]_vars

-----------------------------------------------------------------------------
(* arn_split(arn, field) *)

\* a six-name tuple with the two resource names in the other order
FieldNames_Swapped(n) ==
    IF n = 5
    THEN Ok(<<"partition", "service", "region", "account-id", "resource-id">>)
    ELSE IF n = 6
    THEN Ok(<<"partition", "service", "region", "account-id", "resource-id",
              "resource-type">>)
    ELSE Err("KeyError")

\* field_names[len(fields)]: the dict has the keys 5 and 6
FieldNames(n) ==
    IF n = 5
    THEN Ok(<<"partition", "service", "region", "account-id", "resource-id">>)
    ELSE IF n = 6
    THEN Ok(<<"partition", "service", "region", "account-id", "resource-type",
              "resource-id">>)
    ELSE Err("KeyError")

\* mapping.get(field): null for a name the mapping does not have
Lookup_Get(names, fields, field) ==
    IF \E i \in 1..Len(names) : names[i] = field
    THEN Ok(fields[CHOOSE i \in 1..Len(names) : names[i] = field])
    ELSE Ok(None)

\* mapping[field] of mapping = dict(zip(names, fields))
Lookup(names, fields, field) ==
    IF \E i \in 1..Len(names) : names[i] = field
    THEN Ok(fields[CHOOSE i \in 1..Len(names) : names[i] = field])
    ELSE Err("KeyError")

\* an arn_split that looks the field up before it tests the prefix
arn_split_LookupFirst(arn, field) ==
    LET parts == Split(arn, ":")
        fields == Tail(parts)
        names == FieldNames(Len(fields))
    IN IF ~names.ok THEN Raised(names.error)
       ELSE LET v == Lookup(names.value, fields, field) IN
            IF ~v.ok THEN Raised(v.error)
            ELSE IF Head(parts) # "arn" THEN Raised("ValueError")
            ELSE Returned(v.value)

\* arn_split(arn, field): prefix, *fields = arn.split(":"); the prefix test;
\* the names for this number of fields; the field's value
arn_split(arn, field) ==
    LET parts == Split(arn, ":")
        fields == Tail(parts)
    IN IF Head(parts) # "arn" THEN Raised("ValueError")
       ELSE LET names == FieldNames(Len(fields)) IN
            IF ~names.ok THEN Raised(names.error)
            ELSE LET v == Lookup(names.value, fields, field) IN
                 IF v.ok THEN Returned(v.value) ELSE Raised(v.error)

ArnTexts ==
    {"arn:aws:ec2:us-east-1:1234:instance/i-0", "arn:aws:s3:::my-bucket",
     "arn:aws:rds:us-east-1:1234:db:mydb", "arn:aws:rds:us-east-1:1234:db:my:db",
     "arn:aws:s3", "arn", "", "not-an-arn", "aws:s3:::my-bucket",
     "ARN:aws:s3:::my-bucket", "arn :aws:s3:::my-bucket",
     ":arn:aws:s3:::my-bucket", "arnx:aws:rds:us-east-1:1234:db:mydb",
     "urn:aws:ec2:us-east-1:1234:instance/i-0"}

ArnFields ==
    {"partition", "service", "region", "account-id", "resource-type",
     "resource-id", "arn", "bogus", ""}

InitArn ==
    /\ ContextIdle
    /\ args \in [fn : {"arn_split"}, arn : ArnTexts, field : ArnFields]
    /\ ret = Pending

ArnSplitCall ==
    /\ args.fn = "arn_split" /\ ret.status = "pending"
    /\ ret' = arn_split(args.arn, args.field)
    /\ UNCHANGED <<args, ctxVars>>

NextArn == ArnSplitCall

SpecArn == InitArn /\ [][NextArn]_vars

-----------------------------------------------------------------------------
(* marked_key(source, target) *)

\* longest tag list given to marked_key()
MaxMarked == 2

\* the largest index of s holding sep (0 when there is none)
LastIndexOf(s, sep) ==
    IF HasChar(s, sep)
    THEN CHOOSE k \in 1..Len(s) :
            Char(s, k) = sep /\ \A j \in (k + 1)..Len(s) : Char(s, j) # sep
    ELSE 0

\* the least index of s holding sep (0 when there is none)
IndexOf(s, sep) ==
    IF HasChar(s, sep)
    THEN CHOOSE k \in 1..Len(s) :
            Char(s, k) = sep /\ \A j \in 1..(k - 1) : Char(s, j) # sep
    ELSE 0

\* s.rsplit(sep, 1): cut at the rightmost sep
RSplit1(s, sep) ==
    LET i == LastIndexOf(s, sep) IN
    IF i = 0 THEN <<s>> ELSE <<SubSeq(s, 1, i - 1), SubSeq(s, i + 1, Len(s))>>

\* s.split(sep, 1): cut at the leftmost sep
Split1(s, sep) ==
    LET i == IndexOf(s, sep) IN
    IF i = 0 THEN <<s>> ELSE <<SubSeq(s, 1, i - 1), SubSeq(s, i + 1, Len(s))>>

\* the white space of the ASCII texts
Whitespace == {" ", "\t", "\n", "\r"}

RECURSIVE RStrip(_)
\* s.rstrip()
RStrip(s) ==
    IF Len(s) > 0 /\ Char(s, Len(s)) \in Whitespace
    THEN RStrip(SubSeq(s, 1, Len(s) - 1)) ELSE s

RECURSIVE Strip(_)
\* s.strip()
Strip(s) ==
    IF Len(s) > 0 /\ Char(s, 1) \in Whitespace THEN Strip(SubSeq(s, 2, Len(s)))
    ELSE RStrip(s)

\* a, b = parts: ValueError unless there are exactly two
Unpack2(parts) == IF Len(parts) = 2 THEN Ok(parts) ELSE Err("ValueError")

\* the texts of the marks that are ISO dates or date-times
TimestampTexts == {"2021-01-01T00:00:00", "2020-09-10"}

\* celtypes.TimestampType(text): the timestamp a text denotes, ValueError for
\* a text that denotes none
TimestampType(text) ==
    IF text \in TimestampTexts THEN Ok([type |-> "timestamp", text |-> text])
    ELSE Err("ValueError")

\* the MapType marked_key builds, outside its try statement
MarkedMap(msg, action, action_date_str) ==
    LET t == TimestampType(action_date_str) IN
    IF ~t.ok THEN Raised(t.error)
    ELSE Returned([type |-> "map", message |-> msg, action |-> action,
                   action_date |-> t.value])

\* a marked_key whose try has no except clause
marked_key_NoHandler(source, target) ==
    LET value == key(source, target).value IN
    IF value = None THEN Returned(Null)
    ELSE LET first == Unpack2(RSplit1(value, ":")) IN
         IF ~first.ok THEN Raised(first.error)
         ELSE LET second == Unpack2(Split1(Strip(first.value[2]), "@")) IN
              IF ~second.ok THEN Raised(second.error)
              ELSE MarkedMap(first.value[1], second.value[1], second.value[2])

\* marked_key(source, target)
marked_key(source, target) ==
    LET value == key(source, target).value IN
    IF value = None THEN Returned(Null)
    ELSE LET first == Unpack2(RSplit1(value, ":")) IN
         IF ~first.ok THEN Returned(Null)
         ELSE LET second == Unpack2(Split1(Strip(first.value[2]), "@")) IN
              IF ~second.ok THEN Returned(Null)
              ELSE MarkedMap(first.value[1], second.value[1], second.value[2])

MarkKeys == {"mark", "Name"}

MarkValues ==
    {"msg:terminate@2021-01-01T00:00:00", "hello:stop@2020-09-10",
     "a: b: stop@2020-09-10 ", "msg:stop@x@y", "no-colon", "msg:no-at",
     "stop@2020-09-10", "", None}

MarkRecords == [Key : MarkKeys, Value : MarkValues]

InitMarked ==
    /\ ContextIdle
    /\ args \in [fn : {"marked_key"}, source : SeqsUpTo(MarkRecords, MaxMarked),
                 target : MarkKeys]
    /\ ret = Pending

MarkedKeyCall ==
    /\ args.fn = "marked_key" /\ ret.status = "pending"
    /\ ret' = marked_key(args.source, args.target)
    /\ UNCHANGED <<args, ctxVars>>

NextMarked == MarkedKeyCall

SpecMarked == InitMarked /\ [][NextMarked]_vars

-----------------------------------------------------------------------------
(* parse_text(source_text, format) *)

\* celtypes.StringType(s)
StringType(s) == [type |-> "string", s |-> s]

\* celtypes.ListType(items)
ListType(items) == [type |-> "list", items |-> items]

\* celtypes.MapType(entries)
MapType(entries) == [type |-> "map", entries |-> entries]

RECURSIVE SplitLines(_)
\* s.splitlines() of a text whose line breaks are "\n": no empty last line
SplitLines(s) ==
    IF s = "" THEN <<>>
    ELSE LET i == IndexOf(s, "\n") IN
         IF i = 0 THEN <<s>>
         ELSE <<SubSeq(s, 1, i - 1)>> \o SplitLines(SubSeq(s, i + 1, Len(s)))

\* json_to_cel(json.loads(text)) for the documents of the texts: an integer,
\* null, true, an empty object or array, a one-element array; anything else
\* of these texts, the empty text included, is no JSON document
JsonLoads(text) ==
    LET t == Strip(text) IN
    IF IsDigits(t) /\ ~(Len(t) > 1 /\ Char(t, 1) = "0") THEN Ok(IntType(ToInt(t)))
    ELSE IF t = "null" THEN Ok(Null)
    ELSE IF t = "true" THEN Ok([type |-> "bool", b |-> TRUE])
    ELSE IF t = "{}" THEN Ok(MapType(<<>>))
    ELSE IF t = "[]" THEN Ok(ListType(<<>>))
    ELSE IF t = "[1]" THEN Ok(ListType(<<IntType(1)>>))
    ELSE Err("JSONDecodeError")

\* the list comprehension over the lines: the first line that fails to
\* parse raises
LoadAll(lines) ==
    IF \E i \in 1..Len(lines) : ~JsonLoads(lines[i]).ok
    THEN Raised("JSONDecodeError")
    ELSE Returned(ListType([i \in 1..Len(lines) |-> JsonLoads(lines[i]).value]))

\* one row of csv.reader, for a line without quotes: no field for an empty
\* line
CsvRow(line) == IF line = "" THEN <<>> ELSE Split(line, ",")

\* json_to_cel(row) for a row of csv.reader
CelRow(row) == ListType([i \in 1..Len(row) |-> StringType(row[i])])

\* one row of csv.DictReader under the field names: a short row is filled
\* with None, the fields beyond the names go under the key None
CelDict(names, row) ==
    LET keys == {names[i] : i \in 1..Len(names)}
                   \cup (IF Len(row) > Len(names) THEN {None} ELSE {})
        at(k) == CHOOSE i \in 1..Len(names) :
                    names[i] = k /\ \A j \in (i + 1)..Len(names) : names[j] # k
    IN MapType([k \in keys |->
           IF k = None /\ Len(row) > Len(names)
           THEN CelRow(SubSeq(row, Len(names) + 1, Len(row)))
           ELSE IF at(k) <= Len(row) THEN StringType(row[at(k)]) ELSE Null])

\* the formats parse_text knows
ParseFormats == {"json", "txt", "ldjson", "ndjson", "jsonl", "csv", "csv2dict"}

\* parse_text(source_text, format)
parse_text(source_text, format) ==
    IF format = "json"
    THEN LET v == JsonLoads(source_text) IN
         IF v.ok THEN Returned(v.value) ELSE Raised(v.error)
    ELSE IF format = "txt"
    THEN LET lines == SplitLines(source_text) IN
         Returned(ListType([i \in 1..Len(lines) |-> StringType(RStrip(lines[i]))]))
    ELSE IF format \in {"ldjson", "ndjson", "jsonl"}
    THEN LoadAll(SplitLines(source_text))
    ELSE IF format = "csv"
    THEN LET lines == SplitLines(source_text) IN
         Returned(ListType([i \in 1..Len(lines) |-> CelRow(CsvRow(lines[i]))]))
    ELSE IF format = "csv2dict"
    THEN LET lines == SplitLines(source_text)
             rows == [i \in 1..Len(lines) |-> CsvRow(lines[i])]
             filled == SelectSeq(Tail(rows), LAMBDA r : r # <<>>)
         IN IF rows = <<>> THEN Returned(ListType(<<>>))
            ELSE Returned(ListType([i \in 1..Len(filled) |->
                                       CelDict(Head(rows), filled[i])]))
    ELSE Raised("ValueError")

\* the texts a document holds
Contents ==
    {"1", "1\n2", "1\n2\n", "1\n\n2", "{}\n\n[1]\n", "\n", "", " 1 ",
     "{}", "null\ntrue", "x", "1\nx", "a,b\n1,2", "a,b\n\n1\n1,2,3", "a \nb"}

InitParse ==
    /\ ContextIdle
    /\ args \in [fn : {"parse_text"}, source_text : Contents,
                 format : ParseFormats \cup {"xml", ""}]
    /\ ret = Pending

ParseTextCall ==
    /\ args.fn = "parse_text" /\ ret.status = "pending"
    /\ ret' = parse_text(args.source_text, args.format)
    /\ UNCHANGED <<args, ctxVars>>

NextParse == ParseTextCall

SpecParse == InitParse /\ [][NextParse]_vars

-----------------------------------------------------------------------------
(* value_from(url, format), over text_from(url) and parse_text *)

supported_formats == {"json", "ndjson", "ldjson", "jsonl", "txt", "csv", "csv2dict"}

\* os.path.splitext(url)[1]: the text from the last "." on, when that dot
\* lies after the last "/" and after a character of the name that is no dot
Splitext(url) ==
    LET sep == LastIndexOf(url, "/")
        dot == LastIndexOf(url, ".")
    IN IF dot > sep /\ \E k \in (sep + 1)..(dot - 1) : Char(url, k) # "."
       THEN SubSeq(url, dot, Len(url)) ELSE ""

\* step 1: `if not format:` takes the suffix of the URL without its dot
DeriveFormat(url, format) ==
    IF format = None \/ format = "" THEN SubSeq(Splitext(url), 2, Len(Splitext(url)))
    ELSE format

\* a value_from without its format test: the fetch is started at once
FormatTest_Absent(format) == "fetch"

\* `if format not in supported_formats: raise ValueError`
FormatTest(format) == IF format \notin supported_formats THEN "raise" ELSE "fetch"

\* value_from(url, format) when text_from(url) answers content (ok) or
\* raises
value_from(url, format, content, ok) ==
    LET f == DeriveFormat(url, format) IN
    IF FormatTest(f) = "raise" THEN Raised("ValueError")
    ELSE IF ~ok THEN Raised("URLError")
    ELSE parse_text(content, f)

Urls ==
    {"https://h/data.json", "https://h/data.json?v=1", "https://h/data",
     "s3://b/dir.v2/file", "s3://b/a.b.jsonl", "https://h/x.ldjson",
     "https://h/x.ndjson", "https://h/x.txt", "https://h/x.csv",
     "https://h/x.csv2dict", "https://h/x.xml", "https://h/x.JSON"}

FetchedTexts == {"1", "1\n\n2", "x", "a,b\n1,2", ""}

InitValueFrom ==
    /\ ContextIdle
    /\ args \in [fn : {"value_from"}, url : Urls,
                 format : supported_formats \cup {None, "", "xml"},
                 content : FetchedTexts]
    /\ ret = Pending

\* value_from up to its call of text_from: the format is settled and tested
ValueFromCall ==
    /\ args.fn = "value_from" /\ ret.status = "pending"
    /\ LET f == DeriveFormat(args.url, args.format) IN
       ret' = IF FormatTest(f) = "raise"
              THEN [status |-> "raised", error |-> "ValueError", format |-> f,
                    events |-> <<"test">>]
              ELSE [status |-> "fetching", format |-> f, events |-> <<"test">>]
    /\ UNCHANGED <<args, ctxVars>>

\* text_from(url): the request is sent; the document comes back or the
\* transport raises
ValueFromFetch ==
    /\ args.fn = "value_from" /\ ret.status = "fetching"
    /\ \E ok \in BOOLEAN :
          ret' = IF ok
                 THEN [status |-> "fetched", format |-> ret.format,
                       raw_data |-> args.content,
                       events |-> Append(ret.events, "fetch")]
                 ELSE [status |-> "raised", error |-> "URLError",
                       format |-> ret.format,
                       events |-> Append(ret.events, "fetch")]
    /\ UNCHANGED <<args, ctxVars>>

\* return parse_text(raw_data, format)
ValueFromParse ==
    /\ args.fn = "value_from" /\ ret.status = "fetched"
    /\ LET r == parse_text(ret.raw_data, ret.format) IN
       ret' = IF r.status = "returned"
              THEN [status |-> "returned", value |-> r.value,
                    format |-> ret.format, events |-> Append(ret.events, "parse")]
              ELSE [status |-> "raised", error |-> r.error,
                    format |-> ret.format, events |-> Append(ret.events, "parse")]
    /\ UNCHANGED <<args, ctxVars>>

NextValueFrom == ValueFromCall \/ ValueFromFetch \/ ValueFromParse

SpecValueFrom == InitValueFrom /\ [][NextValueFrom]_vars

-----------------------------------------------------------------------------
(* resource_schedule(tag_value) *)

\* longest list of times of one state of a schedule
MaxTimes == 2

\* the documents C7N.filter.parser.parse(tag_value) returns: a dict with a
\* list of times for some of the states and, possibly, a tz; every entry is
\* written as a pair of which a state uses the list and tz the text
ScheduleDocs ==
    LET Times == [days : {<<0>>, <<1, 2, 3, 4, 5>>}, hour : {6, 21}]
        TimeLists == SeqsUpTo(Times, MaxTimes)
    IN
    {[k \in states \cup (IF tz = None THEN {} ELSE {"tz"}) |->
         IF k = "on" THEN [list |-> on, text |-> ""]
         ELSE IF k = "off" THEN [list |-> off, text |-> ""]
         ELSE [list |-> <<>>, text |-> tz]] :
       states \in SUBSET {"on", "off"}, on \in TimeLists, off \in TimeLists,
       tz \in {None, "pt", "et"}}

\* a pop that never finds the key
Pop_DefaultOnly(doc, k, default) ==
    [value |-> default, rest |-> [j \in DOMAIN doc \ {k} |-> doc[j]]]

\* doc.pop(k, default): the value under k, or the default, and the dict
\* without k
Pop(doc, k, default) ==
    [value |-> IF k \in DOMAIN doc THEN doc[k].text ELSE default,
     rest |-> [j \in DOMAIN doc \ {k} |-> doc[j]]]

\* resource_schedule(tag_value) on the slot it finds, when the parser of the
\* filter answers doc (ok) or raises; the result is the dict comprehension
\* over the rest of the document, through json_to_cel
resource_schedule(slot, doc, ok) ==
    LET o == AdapterOutcome(slot, ok) IN
    IF o.outcome # "value" THEN Raised(o.outcome)
    ELSE LET p == Pop(doc, "tz", "et")
             rest == p.rest
             tz == p.value
         IN Returned(
              MapType([state \in DOMAIN rest |->
                  ListType([i \in 1..Len(rest[state].list) |->
                      MapType([days |-> rest[state].list[i].days,
                               hour |-> rest[state].list[i].hour,
                               tz |-> tz])])]))

\* no context is installed, or worker w1 runs evaluate(filter=F1)
InitSchedule ==
    /\ \/ InitContext
       \/ /\ C7N = C7NContext("w1", "F1")
          /\ pc = [w \in Workers |-> IF w = "w1" THEN "eval" ELSE "idle"]
          /\ outer = [w \in Workers |-> FALSE]
          /\ withFilter = [w \in Workers |-> None]
          /\ evalFilter = [w \in Workers |-> IF w = "w1" THEN "F1" ELSE None]
          /\ exc = [w \in Workers |-> "none"]
          /\ result = [w \in Workers |-> NoResult]
          /\ disturbed = [w \in Workers |-> FALSE]
          /\ last = NoCall
    /\ args \in [fn : {"resource_schedule"}, doc : ScheduleDocs]
    /\ ret = Pending

ResourceScheduleCall ==
    /\ args.fn = "resource_schedule" /\ ret.status = "pending"
    /\ \E ok \in BOOLEAN : ret' = resource_schedule(C7N, args.doc, ok)
    /\ UNCHANGED <<args, ctxVars>>

NextSchedule == ResourceScheduleCall

SpecSchedule == InitSchedule /\ [][NextSchedule]_vars

-----------------------------------------------------------------------------
(* Calls of the transforms and of the document pipeline next to the context *)

\* worker w calls one of the functions that do not read the slot, inside an
\* evaluation or outside; inside, an exception leaves e.evaluate()
TransformCall(w) ==
    LET TransformCalls ==
            {[fn |-> "arn_split", arn |-> a, field |-> "service"] :
                a \in {"arn:aws:s3:::my-bucket", "not-an-arn"}}
            \cup {[fn |-> "parse_text", source_text |-> "1\n2",
                   format |-> "ndjson"],
                  [fn |-> "size_parse_cidr", value |-> "10.0.0.0/8"],
                  [fn |-> "value_from", url |-> "https://h/data.json",
                   format |-> None, content |-> "1"]}
        Apply(call) ==
            IF call.fn = "arn_split" THEN arn_split(call.arn, call.field)
            ELSE IF call.fn = "parse_text"
                 THEN parse_text(call.source_text, call.format)
            ELSE IF call.fn = "size_parse_cidr" THEN size_parse_cidr(call.value)
            ELSE value_from(call.url, call.format, call.content, TRUE)
    IN
    /\ pc[w] \in {"idle", "with", "eval"} /\ exc[w] = "none"
    /\ \E call \in TransformCalls :
          /\ args' = call
          /\ ret' = Apply(call)
          /\ exc' = IF pc[w] = "eval" /\ ret'.status = "raised"
                    THEN [exc EXCEPT ![w] = ret'.error] ELSE exc
    /\ UNCHANGED <<C7N, pc, outer, withFilter, evalFilter, result, disturbed,
                   last>>

NextCalls ==
    \/ \E w \in Workers, f \in Filters : Serialized(w) /\ WithEnter(w, f)
    \/ \E w \in Workers : Serialized(w) /\ WithExit(w)
    \/ \E w \in Workers, f \in Filters \cup {None} :
          Serialized(w) /\ EvaluateEnter(w, f)
    \/ \E w \in Workers : Serialized(w) /\ AdapterCall(w)
    \/ \E w \in Workers : Serialized(w) /\ DirectAdapterCall(w)
    \/ \E w \in Workers : Serialized(w) /\ TextFrom(w)
    \/ \E w \in Workers : Serialized(w) /\ TransformCall(w)
    \/ \E w \in Workers : Serialized(w) /\ EvaluateExit(w)
    \/ \E w \in Workers : Serialized(w) /\ Resume(w)

SpecCalls == Init /\ [][NextCalls]_vars

-----------------------------------------------------------------------------
(* Claims about the ambient context *)

\* C1: the slot is empty while no worker is inside a context (so before the
\* first evaluation starts) and whenever evaluate() has just returned to its
\* caller, with a value or with an exception.
C1_SlotEmptyOutsideEvaluation ==
    /\ (\A w \in Workers : pc[w] = "idle") => ~C7N.set
    /\ \A w \in Workers : pc[w] = "returned" => ~C7N.set

\* an evaluation that raised has returned to its caller
C1_Witness ==
    \E w \in Workers :
        pc[w] = "returned" /\ result[w].kind = "error" /\ last.worker = w

\* C2: while evaluate(context, filter=F) runs its evaluator the slot holds the
\* context of that call, and every adapter call of the evaluation finds the
\* slot set and reads F through it.
C2_EvaluationReadsItsFilter ==
    /\ \A w \in Workers :
          pc[w] = "eval" => C7N = C7NContext(w, evalFilter[w])
    /\ last.inEval => ~last.slotEmpty /\ last.read = last.given

\* an adapter ran inside evaluate(filter=F) and the capability of F answered
C2_Witness ==
    last.inEval /\ last.given \in Filters /\ last.outcome = "value"
        /\ last.invoked = last.given

\* C3: in the documented usage, with C7NContext(filter=the_filter): followed
\* by cel_prgm.evaluate(cel_activation), every adapter call of the evaluation
\* reads the_filter.
C3_DocumentedUsageReadsTheFilter ==
    last.documented => last.read = last.theFilter

\* C4 as stated: with two interleaved evaluations every adapter call reads
\* the Filter its own evaluation installed, never an empty slot.
C4_NeverShared ==
    last.inEval => ~last.slotEmpty /\ last.read = last.given

\* C4 as amended: the slot is shared by the workers of a process; an
\* evaluation that no other worker has disturbed (no other context entered or
\* left since it installed its own) holds its own context in the slot, and
\* its adapter calls read its own Filter.
C4_UndisturbedReadsOwnFilter ==
    /\ \A w \in Workers :
          pc[w] = "eval" /\ ~disturbed[w] => C7N = C7NContext(w, evalFilter[w])
    /\ last.inEval /\ ~last.disturbed =>
          ~last.slotEmpty /\ last.read = last.given

\* an undisturbed adapter call while the other worker is inside an
\* evaluation with a different Filter
C4_Witness ==
    /\ last.inEval /\ ~last.disturbed /\ last.outcome = "value"
    /\ \E u \in Workers \ {last.worker} :
          pc[u] = "eval" /\ evalFilter[u] # last.given

\* C5: an adapter called on an empty slot raises, invokes no Filter
\* capability, returns no value and leaves the slot empty.
C5_EmptySlotIsAnError ==
    last.called /\ last.slotEmpty =>
        /\ last.outcome = "AttributeError"
        /\ last.invoked = None
        /\ last.slotAfterEmpty

\* an adapter was called on the empty slot
C5_Witness == last.called /\ last.slotEmpty

\* C6: the exception that left the evaluation is the one evaluate() delivers
\* to its caller, and a value is delivered only when nothing was raised.
C6_ErrorReachesCaller ==
    \A w \in Workers :
        pc[w] = "returned" =>
            /\ exc[w] # "none" => result[w] = [kind |-> "error", err |-> exc[w]]
            /\ exc[w] = "none" => result[w].kind = "value"

\* a Filter capability raised and evaluate() has returned
C6_Witness ==
    \E w \in Workers : pc[w] = "returned" /\ exc[w] = "FilterError"

-----------------------------------------------------------------------------
(* Claims about the pure transforms *)

\* the least index of source whose record has Key = target (0 when none)
FirstIndex(source, target) ==
    IF \E i \in DOMAIN source : source[i].Key = target
    THEN CHOOSE i \in DOMAIN source :
            /\ source[i].Key = target
            /\ \A j \in 1..(i - 1) : source[j].Key # target
    ELSE 0

\* C7: key(L, n) returns the Value of the first record of L whose Key is n,
\* and null, without raising, when no record has that Key.
C7_KeyFirstMatch ==
    ret.status # "pending" =>
        /\ ret.status = "returned"
        /\ LET i == FirstIndex(args.source, args.target) IN
           ret.value = IF i = 0 THEN None ELSE args.source[i].Value

\* key() answered from the first of two records with the requested Key and
\* different Values
C7_Witness ==
    /\ ret.status = "returned"
    /\ \E i, j \in DOMAIN args.source :
          /\ i < j
          /\ args.source[i].Key = args.target
          /\ args.source[j].Key = args.target
          /\ args.source[i].Value # args.source[j].Value
          /\ i = FirstIndex(args.source, args.target)
          /\ ret.value = args.source[i].Value

\* what the claim says of (fn, a, b): some element of a is not in b, or some
\* element is in both
SetsExpected(fn, a, b) ==
    IF fn = "difference"
    THEN \E i \in DOMAIN a : \A j \in DOMAIN b : a[i] # b[j]
    ELSE \E i \in DOMAIN a : \E j \in DOMAIN b : a[i] = b[j]

\* the function named fn applied to (a, b)
SetsApply(fn, a, b) ==
    IF fn = "difference" THEN difference(a, b) ELSE intersect(a, b)

\* C8: difference(a, b) is true iff some element of a does not occur in b,
\* intersect(a, b) iff some element occurs in both, and neither result
\* changes when a list is replaced by one with the same elements in another
\* order or with other multiplicities.
C8_SetSemantics ==
    ret.status # "pending" =>
        /\ ret = Returned(SetsExpected(args.fn, args.left, args.right))
        /\ \A l2 \in Lists :
              ToSet(l2) = ToSet(args.left) =>
                  SetsApply(args.fn, l2, args.right) = ret
        /\ \A r2 \in Lists :
              ToSet(r2) = ToSet(args.right) =>
                  SetsApply(args.fn, args.left, r2) = ret

\* difference() answered false for two different lists with the same
\* elements, one with a duplicate and in another order
C8_Witness ==
    /\ ret = Returned(FALSE) /\ args.fn = "difference"
    /\ args.left = <<"x", "y", "x">> /\ args.right = <<"y", "x">>

\* the prefix length of a parsed value's block: a single address is a /32
BlockPrefix(v) == IF v.kind = "network" THEN v.prefixlen ELSE 32

\* every address of block b lies in network a: a's prefix is no longer than
\* b's, and b's first address cut to a's prefix is a's network address
Within(a, b) ==
    /\ a.prefixlen <= BlockPrefix(b)
    /\ \A i \in 1..4 : NetOctet(b.octets[i], MaskBits(a.prefixlen, i)) = a.octets[i]

\* C9: for a parsed network A and a parsed network or address B, `B in A` is
\* true iff every address of B lies in A's range; a network contains itself,
\* 10.0.0.0/8 contains 10.1.2.3 and does not contain 11.0.0.0/8.
C9_ContainmentIsSupernetOrEqual ==
    ret.status = "tested" /\ ret.b.value.kind # "None" =>
        /\ ret.in <=> Within(ret.a.value, ret.b.value)
        /\ args.a = args.b => ret.in
        /\ args.a = "10.0.0.0/8" /\ args.b = "10.1.2.3" => ret.in
        /\ args.a = "10.0.0.0/8" /\ args.b = "11.0.0.0/8" => ~ret.in

\* a network was found inside a wider network
C9_Witness ==
    /\ ret.status = "tested" /\ ret.in
    /\ args.a = "10.0.0.0/8" /\ args.b = "10.1.0.0/16"
    /\ ret.b.value = Network(<<10, 1, 0, 0>>, 16)

\* what C10 says of one text and what parse_cidr made of it
ParsedAsClaimed(text, r) ==
    /\ r.status = "returned"
    /\ r.value.kind \in {"None", "address", "network"}
    /\ r.value.kind = "network" => HasChar(text, "/")
    /\ r.value.kind = "address" => ~HasChar(text, "/")
    /\ text \in {"not-an-ip", "", "10.256.0.0", "10.0.0", "10.0.0.0/33",
                 "10.0.0.0/", "10.0.0.0/8/8", "10.0.0.0/x", "10.1.2.3/8"}
           => r.value = NoneCidr
    /\ text = "10.0.0.0/8" => r.value = Network(<<10, 0, 0, 0>>, 8)
    /\ text = "10.0.0.0/255.0.0.0" => r.value = Network(<<10, 0, 0, 0>>, 8)
    /\ text = "10.1.2.3" => r.value = Address(<<10, 1, 2, 3>>)

\* C10: parse_cidr raises for no string: it returns a network for a well
\* formed text with "/", an address for a well formed text without, null for
\* a malformed one, and null is in no network.
C10_ParseCidrIsTotal ==
    ret.status \in {"parsed", "tested"} =>
        /\ ParsedAsClaimed(args.a, ret.a)
        /\ ParsedAsClaimed(args.b, ret.b)
        /\ ret.status = "tested" /\ ret.b.value = NoneCidr => ~ret.in

\* a prefix length out of range was parsed to null, and null was tested
\* against a network
C10_Witness ==
    /\ ret.status = "tested" /\ ~ret.in
    /\ args.a = "10.0.0.0/8" /\ args.b = "10.0.0.0/33"
    /\ ret.b.value = NoneCidr

\* C11: size_parse_cidr(s) raises for no string: it returns the prefix length
\* of the value parse_cidr(s) produced (32 for a single address), or null
\* when parse_cidr(s) is null.
C11_SizeParseCidrNeverRaises ==
    args.fn = "size_parse_cidr" /\ ret.status # "pending" =>
        /\ ret.status = "returned"
        /\ LET v == parse_cidr(args.value).value IN
           ret.value = IF v.kind = "None" THEN Null ELSE IntType(BlockPrefix(v))

RECURSIVE TrimZeros(_)
\* a segment list without its trailing zero segments
TrimZeros(l) ==
    IF l # <<>> /\ l[Len(l)] = Component("0")
    THEN TrimZeros(SubSeq(l, 1, Len(l) - 1)) ELSE l

\* both operands of the comparison are versions or strings with some text
BothVersions == args.right.kind # "other" /\ args.left # "" /\ args.right.text # ""

\* x is y cut short
IsProperPrefix(x, y) == Len(x) < Len(y) /\ SubSeq(y, 1, Len(x)) = x

\* C12 as stated: two versions that differ only by trailing zero segments
\* ("1.2" and "1.2.0") compare equal and neither orders before the other.
C12_ZeroPaddedComparison ==
    /\ ret.status = "done" /\ BothVersions
    /\ TrimZeros(LooseVersion_parse(args.left))
          = TrimZeros(LooseVersion_parse(args.right.text))
    => /\ ret.op = "eq" => ret.r = Returned(TRUE)
       /\ ret.op = "lt" => ret.r = Returned(FALSE)

\* C12 as amended: versions are compared as the lists of their segments as
\* they are, with no padding: when the segments of one are the segments of
\* the other followed by more segments, the two are not equal and the shorter
\* one orders before the longer one.
C12_ProperPrefixOrdersFirst ==
    ret.status = "done" /\ BothVersions =>
        LET x == LooseVersion_parse(args.left)
            y == LooseVersion_parse(args.right.text)
        IN /\ IsProperPrefix(x, y) =>
                 /\ ret.op = "eq" => ret.r = Returned(FALSE)
                 /\ ret.op = "lt" => ret.r = Returned(TRUE)
           /\ IsProperPrefix(y, x) =>
                 /\ ret.op = "eq" => ret.r = Returned(FALSE)
                 /\ ret.op = "lt" => ret.r = Returned(FALSE)

\* "1.2" was found to order before "1.2.0"
C12_Witness ==
    /\ ret.status = "done" /\ ret.op = "lt" /\ ret.r = Returned(TRUE)
    /\ args.left = "1.2" /\ args.right = VersionValue("1.2.0")

\* C13: v == x raises for no version v and no value x: it is false when a
\* numeric segment meets an alphabetic one and when x is no version, and the
\* equality of the segment lists otherwise.
C13_EqualityNeverRaises ==
    ret.status = "done" /\ ret.op = "eq" =>
        /\ ret.r.status = "returned"
        /\ ret.r.value =
              (/\ args.right.kind # "other"
               /\ LooseVersion_parse(args.left)
                     = LooseVersion_parse(args.right.text))

\* the ':'-separated parts of the ARN after its first part
ArnParts == Tail(Split(args.arn, ":"))

\* the text of s before its first "/"
BeforeSlash(s) == Head(Split(s, "/"))

\* C14 as stated: for arn:partition:service:region:account-id:
\* resource-type/resource-id, "resource-type" yields the part before the "/"
\* ("instance" for the ec2 example); "resource-id" of arn:aws:s3:::my-bucket
\* is "my-bucket".
C14_SlashFormHasResourceType ==
    ret.status # "pending" /\ Head(Split(args.arn, ":")) = "arn" =>
        /\ Len(ArnParts) = 5 /\ HasChar(ArnParts[5], "/")
              /\ args.field = "resource-type"
              => ret = Returned(BeforeSlash(ArnParts[5]))
        /\ args.arn = "arn:aws:s3:::my-bucket" /\ args.field = "resource-id"
              => ret = Returned("my-bucket")

\* C14 as amended: only the form with ':' between resource-type and
\* resource-id has a resource-type; in the form with five fields the whole
\* last field, "/" included, is the resource-id and "resource-type" is a
\* lookup error.
C14_ColonFormHasResourceType ==
    ret.status # "pending" /\ Head(Split(args.arn, ":")) = "arn" =>
        /\ Len(ArnParts) = 6 /\ args.field = "resource-type"
              => ret = Returned(ArnParts[5])
        /\ Len(ArnParts) = 6 /\ args.field = "resource-id"
              => ret = Returned(ArnParts[6])
        /\ Len(ArnParts) = 5 /\ args.field = "resource-id"
              => ret = Returned(ArnParts[5])
        /\ Len(ArnParts) = 5 /\ args.field = "resource-type"
              => ret = Raised("KeyError")
        /\ args.arn = "arn:aws:ec2:us-east-1:1234:instance/i-0"
              /\ args.field = "resource-id" => ret = Returned("instance/i-0")
        /\ args.arn = "arn:aws:s3:::my-bucket" /\ args.field = "resource-id"
              => ret = Returned("my-bucket")

\* the resource-type of an ARN of six fields was returned
C14_Witness ==
    /\ args.arn = "arn:aws:rds:us-east-1:1234:db:mydb"
    /\ args.field = "resource-type" /\ ret = Returned("db")

\* C15: a string whose text before the first ':' is not "arn" makes
\* arn_split raise the not-an-ARN error, whatever the field and however many
\* fields follow; no value is returned and no lookup error is seen.
C15_NotAnArnRaises ==
    ret.status # "pending" /\ Head(Split(args.arn, ":")) # "arn" =>
        ret = Raised("ValueError")

\* a string without ':' and a well formed ARN with another prefix were
\* refused, the latter for a field name it would not have
C15_Witness ==
    /\ ret = Raised("ValueError")
    /\ \/ args.arn = "not-an-arn"
       \/ args.arn = "urn:aws:ec2:us-east-1:1234:instance/i-0"
             /\ args.field = "resource-type"

\* the Value marked_key works on: that of the first record with the
\* requested Key (null when there is none)
MarkedValue ==
    LET i == FirstIndex(args.source, args.target) IN
    IF i = 0 THEN None ELSE args.source[i].Value

\* C16: a Value message:action@action_date whose action_date is an ISO
\* date-time yields the map of its three parts: "msg:terminate@
\* 2021-01-01T00:00:00" gives message "msg", action "terminate" and
\* action_date timestamp(2021-01-01T00:00:00).
C16_IsoDateTimeMark ==
    ret.status # "pending"
        /\ MarkedValue = "msg:terminate@2021-01-01T00:00:00"
    => ret = Returned([type |-> "map", message |-> "msg", action |-> "terminate",
                       action_date |-> [type |-> "timestamp",
                                        text |-> "2021-01-01T00:00:00"]])

\* the Value has no ':', or no '@' after its rightmost ':'
WrongShape(v) ==
    \/ \A i \in 1..Len(v) : Char(v, i) # ":"
    \/ \E i \in 1..Len(v) :
          /\ Char(v, i) = ":"
          /\ \A j \in (i + 1)..Len(v) : Char(v, j) # ":" /\ Char(v, j) # "@"

\* C17: marked_key returns null and raises nothing when no record has the
\* requested Key, and when the Value found has no ':' or no '@' after its
\* rightmost ':'.
C17_NullOnMissingOrMalformed ==
    ret.status # "pending" =>
        /\ FirstIndex(args.source, args.target) = 0 => ret = Returned(Null)
        /\ MarkedValue # None /\ WrongShape(MarkedValue) => ret = Returned(Null)

\* null came back for a Value without ':' that stands before a well formed
\* Value of the same Key
C17_Witness ==
    /\ ret = Returned(Null)
    /\ Len(args.source) = 2
    /\ args.source[1] = [Key |-> args.target, Value |-> "no-colon"]
    /\ args.source[2] = [Key |-> args.target, Value |-> "hello:stop@2020-09-10"]

\* the lines of the text between its line breaks, the empty ones left out
NonEmptyLines == SelectSeq(Split(args.source_text, "\n"), LAMBDA l : l # "")

\* C20: for ldjson, ndjson and jsonl, parse_text of a text whose non-empty
\* lines are JSON documents returns the list of these documents in line
\* order; the empty lines add no element and raise nothing.
C20_EmptyLinesAreSkipped ==
    /\ ret.status # "pending"
    /\ args.format \in {"ldjson", "ndjson", "jsonl"}
    /\ \A i \in 1..Len(NonEmptyLines) : JsonLoads(NonEmptyLines[i]).ok
    => /\ ret.status = "returned"
       /\ ret.value.type = "list"
       /\ Len(ret.value.items) = Len(NonEmptyLines)
       /\ \A i \in 1..Len(NonEmptyLines) :
              ret.value.items[i] = JsonLoads(NonEmptyLines[i]).value

\* the tz the claim names: that of the parsed document, "et" without one
ClaimedTz == IF "tz" \in DOMAIN args.doc THEN args.doc["tz"].text ELSE "et"

ColonCount == Cardinality({i \in 1..Len(args.arn) : Char(args.arn, i) = ":"})

\* the field names of the two shapes, in the order of the fields
ShapeOf(n) ==
    IF n = 5 THEN <<"partition", "service", "region", "account-id", "resource-id">>
    ELSE IF n = 6 THEN <<"partition", "service", "region", "account-id",
                         "resource-type", "resource-id">>
    ELSE <<>>

\* C22: with the prefix "arn", arn_split returns a value only for five or
\* six fields and a field name of that shape, and then the field at the
\* position of the name; for every other number of fields and every other
\* name it raises a lookup error, and returns neither a value nor null.
C22_ValueOnlyForKnownShape ==
    ret.status # "pending" /\ Head(Split(args.arn, ":")) = "arn" =>
        LET names == ShapeOf(ColonCount) IN
        IF \E i \in 1..Len(names) : names[i] = args.field
        THEN \A i \in 1..Len(names) :
                 names[i] = args.field => ret = Returned(ArnParts[i])
        ELSE ret = Raised("KeyError")

\* worker w enters or leaves a context in this step: __enter__ or __exit__
\* of the with statement of user code or of evaluate()
EntersOrLeaves(w) ==
    <<pc[w], pc'[w]>> \in {<<"idle", "with">>, <<"idle", "eval">>,
                           <<"with", "eval">>, <<"with", "idle">>,
                           <<"eval", "returned">>}

\* C23: the slot is written only by C7NContext.__enter__ and __exit__: a
\* step that changes it is the entry or exit of a context, and a call of a
\* capability adapter, of text_from or of a transform leaves it as it was.
C23_OnlyEnterAndExitWriteSlot ==
    [][/\ C7N' # C7N => \E w \in Workers : EntersOrLeaves(w)
       /\ last' # last \/ args' # args \/ (exc' # exc /\ pc' = pc)
             => C7N' = C7N]_vars

\* inside an evaluation with a Filter, an adapter and a transform have been
\* called and the slot still holds the context of the evaluation
C23_Witness ==
    \E w \in Workers :
        /\ pc[w] = "eval" /\ evalFilter[w] \in Filters
        /\ last.called /\ last.worker = w /\ last.read = evalFilter[w]
        /\ args.fn = "arn_split" /\ ret.status = "raised"
        /\ C7N = C7NContext(w, evalFilter[w])

\* C24: an evaluation entered inside a with-block puts its own context in
\* place of the outer one; when it leaves, the slot is empty, not the outer
\* context again, it stays empty for the rest of the with-block, and an
\* adapter called there raises.
C24_ContextsDoNotNest ==
    /\ [](\A w \in Workers :
            /\ pc[w] = "eval" /\ outer[w] => C7N = C7NContext(w, evalFilter[w])
            /\ pc[w] = "returned" /\ outer[w] => ~C7N.set
            /\ pc[w] = "with" => (~C7N.set \/ C7N = C7NContext(w, withFilter[w])))
    /\ [](last.called /\ ~last.inEval /\ last.slotEmpty
            => last.outcome = "AttributeError")
    /\ [][\A w \in Workers :
            /\ pc[w] = "returned" /\ outer[w] /\ pc'[w] = "with" => ~C7N'.set
            /\ pc[w] = "with" /\ ~C7N.set /\ pc'[w] = "with" => ~C7N'.set]_vars

\* back in a with-block that installed a Filter, after an evaluation with
\* another Filter, an adapter found the slot empty and raised
C24_Witness ==
    /\ last.called /\ ~last.inEval /\ last.slotEmpty
    /\ last.theFilter \in Filters /\ last.outcome = "AttributeError"
    /\ pc[last.worker] = "with" /\ withFilter[last.worker] = last.theFilter
    /\ ~C7N.set

\* an ARN of seven fields, its resource id holding a ':', raised the lookup
\* error for a field name of both shapes
C22_Witness ==
    /\ args.arn = "arn:aws:rds:us-east-1:1234:db:my:db"
    /\ args.field = "resource-id" /\ ret = Raised("KeyError")

\* the call of value_from has ended
ValueFromEnded == ret.status \in {"returned", "raised"}

\* what the call delivered
ValueFromOutcome ==
    IF ret.status = "returned" THEN Returned(ret.value) ELSE Raised(ret.error)

\* the transport answered the fetch of the call
TransportOk == ~(ret.status = "raised" /\ ret.error = "URLError")

\* the path of a URL: its text before the query and the fragment
UrlPath(url) == Head(Split(Head(Split(url, "#")), "?"))

EndsWith(s, t) == Len(t) <= Len(s) /\ SubSeq(s, Len(s) - Len(t) + 1, Len(s)) = t

\* C18: for a supported format f and a URL whose path ends in ".f",
\* value_from(url) delivers what value_from(url, f) delivers on the same
\* fetched content: the same value or the same error.
C18_SuffixActsAsFormat ==
    ValueFromEnded /\ args.format = None =>
        \A f \in supported_formats :
            EndsWith(UrlPath(args.url), "." \o f) =>
                ValueFromOutcome
                    = value_from(args.url, f, args.content, TransportOk)

\* the format the claim speaks of: the one given, or the text after the last
\* "." of the URL when none is given
ClaimedFormat ==
    IF args.format \notin {None, ""} THEN args.format
    ELSE IF HasChar(args.url, ".")
    THEN SubSeq(args.url, LastIndexOf(args.url, ".") + 1, Len(args.url))
    ELSE ""

\* C19: with a format that is not supported, given or derived, value_from
\* ends with the unsupported-format error and no fetch is ever started; with
\* a supported one the fetch comes first and the parse after it.
C19_FailFast ==
    ret.status # "pending" =>
        /\ ClaimedFormat \notin supported_formats =>
              /\ ret = [status |-> "raised", error |-> "ValueError",
                        format |-> ret.format, events |-> <<"test">>]
        /\ ClaimedFormat \in supported_formats =>
              /\ ret.events \in {<<"test">>, <<"test", "fetch">>,
                                 <<"test", "fetch", "parse">>}
              /\ ret.status = "fetching" <=> ret.events = <<"test">>
              /\ ret.status = "returned" => ret.events = <<"test", "fetch", "parse">>

\* a call without format on a URL with an unsupported suffix was refused
\* before any fetch
C19_Witness ==
    /\ args.url = "https://h/x.xml" /\ args.format = None
    /\ ret.status = "raised" /\ ret.error = "ValueError"
    /\ ret.events = <<"test">>

====
